---- MODULE Spec2Model ----
(***************************************************************************)
(* Model of agents/database_debug_agent.py (class DatabaseDebugAgent).     *)
(*                                                                         *)
(* Text is a sequence of lexemes.  A lexeme is a literal piece of text     *)
(* that the regular expressions of the agent treat as a unit (a keyword,   *)
(* a fragment one of the patterns names, a run of blanks, a line feed).    *)
(* The text a sequence stands for is the concatenation of its lexemes.     *)
(* The file on disk is a sequence of the same lexemes in which a line end  *)
(* may be "\n", "\r" or "\r" "\n", and which may hold a byte that is not   *)
(* valid UTF-8.                                                            *)
(***************************************************************************)
EXTENDS Integers, Sequences, FiniteSets, TLC

VARIABLES
  file,           \* the file at target_file: whether it exists, and its bytes
  linesep,        \* os.linesep of the platform
  faults,         \* I/O errors the environment may still raise
  budget,         \* calls the client may still make
  error_message,  \* the argument the client passes to analyze_error
  pc,             \* the position of run_diagnosis ("idle" outside of it)
  trace,          \* the methods the last run_diagnosis called, with their results
  op, ok,         \* the last method the client called, and the flag it returned
  prev_op, prev_ok, \* the same for the call before it
  analysis,       \* the record the last analyze_error returned
  issues,         \* the list the last find_sql_issues returned
  before          \* the file when the last call started

vars == <<file, linesep, faults, budget, error_message, pc, trace,
          op, ok, prev_op, prev_ok, analysis, issues, before>>

(***************************************************************************)
(* Lexemes                                                                 *)
(***************************************************************************)
NL == "\n"
CR == "\r"
BadByte == "<0xFF>"
\* "<BQ>" stands for the backquote character, which a TLA+ string cannot hold.
Decl == "const bettingQuery = <BQ>"
Close == "<BQ>;"
Ind4 == "    "
Ind6 == "      "
Ind8 == "        "
WhiteSpace == {" ", Ind4, Ind6, Ind8, NL, CR}

(***************************************************************************)
(* Sequence helpers                                                        *)
(***************************************************************************)
Max(S) == CHOOSE x \in S : \A y \in S : y <= x
Min(S) == CHOOSE x \in S : \A y \in S : x <= y
Range(s) == {s[i] : i \in 1..Len(s)}
Prefixes(s) == {SubSeq(s, 1, k) : k \in 0..Len(s)}

\* The concatenation of a sequence of sequences (by halves, to keep the
\* evaluation shallow).
RECURSIVE Flatten(_)
Flatten(ss) ==
  IF ss = <<>> THEN <<>>
  ELSE IF Len(ss) = 1 THEN ss[1]
  ELSE LET h == Len(ss) \div 2
       IN  Flatten(SubSeq(ss, 1, h)) \o Flatten(SubSeq(ss, h + 1, Len(ss)))

\* The k-th smallest element of a set of numbers.
Nth(S, k) == CHOOSE x \in S : Cardinality({y \in S : y < x}) = k - 1

RECURSIVE Concats(_, _)
Concats(F, n) ==
  IF n = 0 THEN {<<>>}
  ELSE LET P == Concats(F, n - 1)
       IN  P \cup {p \o f : p \in P, f \in F}

(***************************************************************************)
(* Text-mode file I/O: open(file_path, 'r' / 'w', encoding='utf-8')        *)
(***************************************************************************)
\* Reading in text mode with the default newline=None: "\r\n" and a lone
\* "\r" both become "\n".
Decode(bytes) ==
  Flatten([i \in 1..Len(bytes) |->
             IF bytes[i] = CR THEN <<NL>>
             ELSE IF bytes[i] = NL /\ i > 1 /\ bytes[i - 1] = CR THEN <<>>
             ELSE <<bytes[i]>>])

\* Writing in text mode with the default newline=None: every "\n" becomes
\* os.linesep.
Encode(text, sep) ==
  Flatten([i \in 1..Len(text) |-> IF text[i] = NL THEN sep ELSE <<text[i]>>])

Readable(f) == f.exists /\ BadByte \notin Range(f.bytes)

\* The states a failed "with open(file_path, 'w') as f: f.write(content)"
\* can leave: the open itself failed (file untouched), or the file was
\* truncated by the open and any prefix of the data reached the disk before
\* the error.
FailedWrite(f, data) == {f} \cup {[exists |-> TRUE, bytes |-> p] : p \in Prefixes(data)}

(***************************************************************************)
(* analyze_error                                                           *)
(***************************************************************************)
\* The literal of line 26, as two lexemes so that a message can hold a part
\* of it.
KnownError == <<"operator does not exist: ", "character varying = integer">>

\* Python's "needle in haystack" on strings.
Contains(hay, needle) ==
  \E i \in 0..(Len(hay) - Len(needle)) : SubSeq(hay, i + 1, i + Len(needle)) = needle

TypeCastingRecord ==
  [issue_type |-> "type_casting",
   problem    |-> "VARCHAR column being compared to INTEGER",
   solution   |-> "Add explicit type casting or fix parameter types"]

UnknownRecord ==
  [issue_type |-> "unknown", problem |-> "Unknown error", solution |-> "Investigate further"]

\* Mutant: "==" in place of "in".
analyze_error_exact(msg) ==
  IF msg = KnownError THEN TypeCastingRecord ELSE UnknownRecord

analyze_error(msg) ==
  IF Contains(msg, KnownError) THEN TypeCastingRecord ELSE UnknownRecord

(***************************************************************************)
(* find_sql_issues                                                         *)
(***************************************************************************)
\* Lexemes that hold the character or the shape a scan pattern looks for.
WhereLex == {"WHERE"}
EqLex == {"=", "user_id = $1", Decl, "const simpleQuery = <BQ>",
          "const result = await db.query(simpleQuery, [userId, limit]);"}
QuotedLex == {"'win'", "'bet_activity' as activity_type,",
              "'Bet placed' as description,", "'bet' as category"}
ParamLex == {"LIMIT $2", "user_id = $1"}
UnionLex == {"UNION", "Union"}

\* content.split('\n')
Split(text) ==
  LET cuts == {i \in 1..Len(text) : text[i] = NL}
      n    == Cardinality(cuts) + 1
  IN  [k \in 1..n |->
         SubSeq(text,
                IF k = 1 THEN 1 ELSE Nth(cuts, k - 1) + 1,
                IF k = n THEN Len(text) ELSE Nth(cuts, k) - 1)]

\* line.strip()
Strip(line) ==
  LET I == {i \in 1..Len(line) : line[i] \notin WhiteSpace}
  IN  IF I = {} THEN <<>> ELSE SubSeq(line, Min(I), Max(I))

\* re.search(r"WHERE.*=.*'[^']*'", line)
StringComparison(line) ==
  \E i, j, k \in 1..Len(line) :
     i < j /\ j < k /\ line[i] \in WhereLex /\ line[j] \in EqLex /\ line[k] \in QuotedLex

\* re.search(r"\$[0-9]+", line)
ParameterUsage(line) == \E i \in 1..Len(line) : line[i] \in ParamLex

\* "UNION" in line.upper()
UnionQuery(line) == \E i \in 1..Len(line) : line[i] \in UnionLex

Issue(i, line, what, sev) ==
  [line |-> i, content |-> Strip(line), issue |-> what, severity |-> sev]

\* Mutant: "elif" in place of the second and the third "if".
LineIssuesElif(i, line) ==
  IF StringComparison(line)
  THEN <<Issue(i, line, "String literal comparison - check if column is VARCHAR", "medium")>>
  ELSE IF ParameterUsage(line)
  THEN <<Issue(i, line, "Parameter usage - verify type matches column type", "high")>>
  ELSE IF UnionQuery(line)
  THEN <<Issue(i, line,
           "UNION query - ensure all SELECT statements have matching column types", "high")>>
  ELSE <<>>

LineIssues(i, line) ==
  (IF StringComparison(line)
   THEN <<Issue(i, line, "String literal comparison - check if column is VARCHAR", "medium")>>
   ELSE <<>>)
  \o
  (IF ParameterUsage(line)
   THEN <<Issue(i, line, "Parameter usage - verify type matches column type", "high")>>
   ELSE <<>>)
  \o
  (IF UnionQuery(line)
   THEN <<Issue(i, line,
            "UNION query - ensure all SELECT statements have matching column types", "high")>>
   ELSE <<>>)

\* for i, line in enumerate(lines, 1)
ScanLines(lines) == Flatten([i \in 1..Len(lines) |-> LineIssues(i, lines[i])])

\* The issues of a file whose read succeeded.
ScanText(text) == ScanLines(Split(text))

(***************************************************************************)
(* fix_sql_query: the four re.sub calls, each replacing every              *)
(* non-overlapping match from left to right                                *)
(***************************************************************************)
\* Fix 1: re.sub(r'\[userId\.toString\(\)\]', '[userId]', content)
Fix1(text) ==
  [i \in 1..Len(text) |->
     IF text[i] = "[userId.toString()]" THEN "[userId]" ELSE text[i]]

\* \s* from position i: the first position at or after i that holds no
\* white space (Len + 1 when there is none).
RECURSIVE SkipSpace(_, _)
SkipSpace(text, i) ==
  IF i <= Len(text) /\ text[i] \in WhiteSpace THEN SkipSpace(text, i + 1) ELSE i

\* result\s*=\s*'win' starting at position j: the position of its last
\* lexeme, or 0 when it does not match there.
ResultEnd(text, j) ==
  IF text[j] # "result" THEN 0
  ELSE LET a == SkipSpace(text, j + 1)
       IN  IF a > Len(text) \/ text[a] # "=" THEN 0
           ELSE LET b == SkipSpace(text, a + 1)
                IN  IF b > Len(text) \/ text[b] # "'win'" THEN 0 ELSE b

\* WHERE.*result\s*=\s*'win' starting at position i: the position of the
\* last lexeme of the match, or 0.  ".*" is greedy and does not cross a line
\* feed, so the match runs to the last "result = 'win'" that starts on the
\* line of the WHERE.
WhereEnd(text, i) ==
  IF text[i] # "WHERE" THEN 0
  ELSE LET C == {j \in (i + 1)..Len(text) :
                    /\ \A k \in (i + 1)..(j - 1) : text[k] # NL
                    /\ ResultEnd(text, j) # 0}
       IN  IF C = {} THEN 0 ELSE ResultEnd(text, Max(C))

WhereReplacement ==
  <<"WHERE", " ", "result", " ", "=", " ", "'win'", "::VARCHAR">>

\* Fix 2: re.sub(r"WHERE.*result\s*=\s*'win'", "WHERE result = 'win'::VARCHAR", content)
\* The text from position i on: up to the next match as it is, the
\* replacement for the match, and on from behind the match.
RECURSIVE Fix2From(_, _)
Fix2From(text, i) ==
  LET S == {s \in i..Len(text) : WhereEnd(text, s) # 0}
  IN  IF S = {} THEN SubSeq(text, i, Len(text))
      ELSE SubSeq(text, i, Min(S) - 1) \o WhereReplacement
           \o Fix2From(text, WhereEnd(text, Min(S)) + 1)

Fix2(text) == Fix2From(text, 1)

\* Fix 3: re.sub(r'LIMIT \$2', 'LIMIT $2::INTEGER', content)
Fix3(text) ==
  Flatten([i \in 1..Len(text) |->
             IF text[i] = "LIMIT $2" THEN <<"LIMIT $2", "::INTEGER">> ELSE <<text[i]>>])

\* Fix 4: re.sub(r'winnings > 0', 'winnings::NUMERIC > 0', content)
\* Mutant: the annotation is put behind the comparison.
Fix4CastBehind(text) ==
  Flatten([i \in 1..Len(text) |->
             IF text[i] = " > 0" /\ i > 1 /\ text[i - 1] = "winnings"
             THEN <<" > 0", "::NUMERIC">>
             ELSE <<text[i]>>])

Fix4(text) ==
  Flatten([i \in 1..Len(text) |->
             IF text[i] = "winnings" /\ i < Len(text) /\ text[i + 1] = " > 0"
             THEN <<"winnings", "::NUMERIC">>
             ELSE <<text[i]>>])

\* Mutant: the content is written after the second substitution.
FixedContentEarlyWrite(text) == Fix2(Fix1(text))

\* The content fix_sql_query hands to f.write
FixedContent(text) == Fix4(Fix3(Fix2(Fix1(text))))

(***************************************************************************)
(* create_simple_fallback_query                                            *)
(***************************************************************************)
\* Mutant: the replacement declares bettingQuery again.
fallback_query_betting ==
  << "// Simple fallback query - just get basic bet information", NL,
     Ind4, Decl, NL,
     Ind6, "SELECT", " ", NL,
     Ind6, "FROM bets", NL,
     Ind4, Close, NL,
     Ind4, "const result = await db.query(bettingQuery, [userId, limit]);" >>

\* fallback_query.strip(), line by line
fallback_query ==
  << "// Simple fallback query - just get basic bet information", NL,
     Ind4, "const simpleQuery = <BQ>", NL,
     Ind6, "SELECT", " ", NL,
     Ind8, "'bet_activity' as activity_type,", NL,
     Ind8, "'Bet placed' as description,", NL,
     Ind8, "-amount as amount_change,", NL,
     Ind8, "timestamp,", NL,
     Ind8, "'bet' as category", NL,
     Ind6, "FROM bets", NL,
     Ind6, "WHERE", " ", "user_id = $1", NL,
     Ind6, "ORDER BY timestamp DESC", NL,
     Ind6, "LIMIT $2", NL,
     Ind4, Close, NL,
     Ind4, NL,
     Ind4, "const result = await db.query(simpleQuery, [userId, limit]);" >>

\* Mutant: ".*" in place of ".*?", the match runs to the last delimiter.
BlockEndGreedy(text, i) ==
  IF text[i] # Decl THEN 0
  ELSE LET C == {j \in (i + 1)..Len(text) : text[j] = Close}
       IN  IF C = {} THEN 0 ELSE Max(C)

\* const bettingQuery = `.*?`; starting at position i, with re.DOTALL: the
\* position of the closing lexeme, or 0.  ".*?" is lazy, so the match ends at
\* the first closing delimiter after the declaration, line feeds included.
BlockEnd(text, i) ==
  IF text[i] # Decl THEN 0
  ELSE LET C == {j \in (i + 1)..Len(text) : text[j] = Close}
       IN  IF C = {} THEN 0 ELSE Min(C)

\* re.sub(r'const bettingQuery = `.*?`;', fallback_query.strip(), content,
\*        flags=re.DOTALL): every non-overlapping match, left to right
RECURSIVE FallbackFrom(_, _)
FallbackFrom(text, i) ==
  LET S == {s \in i..Len(text) : BlockEnd(text, s) # 0}
  IN  IF S = {} THEN SubSeq(text, i, Len(text))
      ELSE SubSeq(text, i, Min(S) - 1) \o fallback_query
           \o FallbackFrom(text, BlockEnd(text, Min(S)) + 1)

FallbackContent(text) == FallbackFrom(text, 1)

(***************************************************************************)
(* The methods as relations between the file before and after              *)
(***************************************************************************)
NoFile == [exists |-> FALSE, bytes |-> <<>>]
FileOf(bytes) == [exists |-> TRUE, bytes |-> bytes]

\* try: read, transform in memory, write; except: return False.
\* The set of <<file after, return value, faults left>>.  The read raises
\* when the file is missing or is not UTF-8; the environment may make the
\* read or the write raise while it has faults left.
\* content is what the method makes of the text it read.
Patch(f, sep, flt, content) ==
  IF ~Readable(f) THEN {<<f, FALSE, flt>>}
  ELSE LET data == Encode(content, sep)
       IN  {<<FileOf(data), TRUE, flt>>}
           \cup (IF flt > 0 THEN {<<g, FALSE, flt - 1>> : g \in FailedWrite(f, data)} ELSE {})

fix_sql_query(f, sep, flt) == Patch(f, sep, flt, FixedContent(Decode(f.bytes)))

create_simple_fallback_query(f, sep, flt) ==
  Patch(f, sep, flt, FallbackContent(Decode(f.bytes)))

\* The set of <<issues, faults left>>.
find_sql_issues(f, flt) ==
  IF ~Readable(f) THEN {<< <<>>, flt >>}
  ELSE {<< ScanText(Decode(f.bytes)), flt >>}
       \cup (IF flt > 0 THEN {<< <<>>, flt - 1 >>} ELSE {})

(***************************************************************************)
(* Direct calls of the public methods                                      *)
(***************************************************************************)
Flag(b) == IF b THEN "True" ELSE "False"

CallAnalyze ==
  /\ pc = "idle" /\ budget > 0
  /\ analysis' = analyze_error(error_message)
  /\ op' = "analyze_error"
  /\ prev_op' = op /\ prev_ok' = ok
  /\ before' = file
  /\ budget' = budget - 1
  /\ UNCHANGED <<file, linesep, faults, error_message, pc, trace, ok, issues>>

CallScan ==
  /\ pc = "idle" /\ budget > 0
  /\ \E r \in find_sql_issues(file, faults) :
        /\ issues' = r[1]
        /\ faults' = r[2]
  /\ op' = "find_sql_issues"
  /\ prev_op' = op /\ prev_ok' = ok
  /\ before' = file
  /\ budget' = budget - 1
  /\ UNCHANGED <<file, linesep, error_message, pc, trace, ok, analysis>>

CallFix ==
  /\ pc = "idle" /\ budget > 0
  /\ \E r \in fix_sql_query(file, linesep, faults) :
        /\ file' = r[1]
        /\ ok' = r[2]
        /\ faults' = r[3]
  /\ op' = "fix_sql_query"
  /\ prev_op' = op /\ prev_ok' = ok
  /\ before' = file
  /\ budget' = budget - 1
  /\ UNCHANGED <<linesep, error_message, pc, trace, analysis, issues>>

CallFallback ==
  /\ pc = "idle" /\ budget > 0
  /\ \E r \in create_simple_fallback_query(file, linesep, faults) :
        /\ file' = r[1]
        /\ ok' = r[2]
        /\ faults' = r[3]
  /\ op' = "create_simple_fallback_query"
  /\ prev_op' = op /\ prev_ok' = ok
  /\ before' = file
  /\ budget' = budget - 1
  /\ UNCHANGED <<linesep, error_message, pc, trace, analysis, issues>>

(***************************************************************************)
(* run_diagnosis, one step per statement that calls out                    *)
(***************************************************************************)
\* if not os.path.exists(target_file): ... return False
RunNotFound ==
  /\ pc = "idle" /\ budget > 0
  /\ ~file.exists
  /\ op' = "run_diagnosis"
  /\ ok' = FALSE
  /\ trace' = <<>>
  /\ prev_op' = op /\ prev_ok' = ok
  /\ before' = file
  /\ budget' = budget - 1
  /\ UNCHANGED <<file, linesep, faults, error_message, pc, analysis, issues>>

\* Mutant: no os.path.exists check.
RunStartUnchecked ==
  /\ pc = "idle" /\ budget > 0
  /\ op' = "run_diagnosis"
  /\ pc' = "analyze"
  /\ trace' = <<>>
  /\ prev_op' = op /\ prev_ok' = ok
  /\ before' = file
  /\ budget' = budget - 1
  /\ UNCHANGED <<file, linesep, faults, error_message, ok, analysis, issues>>

RunStart ==
  /\ pc = "idle" /\ budget > 0
  /\ file.exists
  /\ op' = "run_diagnosis"
  /\ pc' = "analyze"
  /\ trace' = <<>>
  /\ prev_op' = op /\ prev_ok' = ok
  /\ before' = file
  /\ budget' = budget - 1
  /\ UNCHANGED <<file, linesep, faults, error_message, ok, analysis, issues>>

\* analysis = self.analyze_error(error_msg)
RunAnalyze ==
  /\ pc = "analyze"
  /\ analysis' = analyze_error(KnownError)
  /\ trace' = Append(trace, <<"analyze_error", "-">>)
  /\ pc' = "scan"
  /\ UNCHANGED <<prev_op, prev_ok, file, linesep, faults, budget, error_message, op, ok, issues, before>>

\* issues = self.find_sql_issues(target_file)
RunScan ==
  /\ pc = "scan"
  /\ \E r \in find_sql_issues(file, faults) :
        /\ issues' = r[1]
        /\ faults' = r[2]
  /\ trace' = Append(trace, <<"find_sql_issues", "-">>)
  /\ pc' = "fallback"
  /\ UNCHANGED <<prev_op, prev_ok, file, linesep, budget, error_message, op, ok, analysis, before>>

\* Mutant: the result of the fallback is ignored.
RunFallbackIgnored ==
  /\ pc = "fallback"
  /\ \E r \in create_simple_fallback_query(file, linesep, faults) :
        /\ file' = r[1]
        /\ faults' = r[3]
        /\ trace' = Append(trace, <<"create_simple_fallback_query", Flag(r[2])>>)
  /\ pc' = "fix"
  /\ UNCHANGED <<prev_op, prev_ok, linesep, budget, error_message, op, ok, analysis, issues, before>>

\* if self.create_simple_fallback_query(target_file): return True
RunFallback ==
  /\ pc = "fallback"
  /\ \E r \in create_simple_fallback_query(file, linesep, faults) :
        /\ file' = r[1]
        /\ faults' = r[3]
        /\ trace' = Append(trace, <<"create_simple_fallback_query", Flag(r[2])>>)
        /\ IF r[2] THEN pc' = "idle" /\ ok' = TRUE
                   ELSE pc' = "fix" /\ ok' = ok
  /\ UNCHANGED <<prev_op, prev_ok, linesep, budget, error_message, op, analysis, issues, before>>

\* if self.fix_sql_query(target_file): return True ... return False
RunFix ==
  /\ pc = "fix"
  /\ \E r \in fix_sql_query(file, linesep, faults) :
        /\ file' = r[1]
        /\ faults' = r[3]
        /\ trace' = Append(trace, <<"fix_sql_query", Flag(r[2])>>)
        /\ ok' = r[2]
  /\ pc' = "idle"
  /\ UNCHANGED <<prev_op, prev_ok, linesep, budget, error_message, op, analysis, issues, before>>

Next ==
  \/ CallAnalyze
  \/ CallScan
  \/ CallFix
  \/ CallFallback
  \/ RunNotFound
  \/ RunStart
  \/ RunAnalyze
  \/ RunScan
  \/ RunFallback
  \/ RunFix

(***************************************************************************)
(* Initial states                                                          *)
(***************************************************************************)
\* The script makes one call, agent.run_diagnosis(), per process.
CallsPerProcess == 1
MaxCalls == 2
MaxFaults == 1
MaxFrags == 2
MaxFixFrags == 3
MaxBlockFrags == 5
MaxScanFrags == 3
MaxMsgLen == 3

InitOn(Texts, Msgs, flt, calls) ==
  /\ file \in {NoFile} \cup {FileOf(t) : t \in Texts}
  /\ linesep \in {<<NL>>, <<CR, NL>>}
  /\ faults = flt
  /\ budget = calls
  /\ error_message \in Msgs
  /\ pc = "idle"
  /\ trace = <<>>
  /\ op = "none"
  /\ ok = FALSE
  /\ prev_op = "none"
  /\ prev_ok = FALSE
  /\ analysis = UnknownRecord
  /\ issues = <<>>
  /\ before = file

\* Files with a little of everything, and an environment that may fail.
CoreFrags ==
  { <<"[userId.toString()]">>, <<"LIMIT $2">>, <<Decl, NL, Close>>, <<CR, NL>>, <<BadByte>> }

Init == InitOn(Concats(CoreFrags, MaxFrags), {KnownError}, MaxFaults, CallsPerProcess)

Spec == Init /\ [][Next]_vars

\* A client that patches the file several times, on files made of the text
\* the four substitutions look for, in an environment that does not fail.
FixFrags ==
  { <<"[userId.toString()]">>, <<"LIMIT $2">>, <<"winnings", " > 0">>, <<NL>>,
    <<"WHERE">>, <<"user_id = $1">>, <<"result", "=", "'win'">>,
    <<"result", NL, "=", " ", "'win'">> }

NextPatch == CallFix \/ CallFallback

InitFix == InitOn(Concats(FixFrags, MaxFixFrags), {KnownError}, 0, MaxCalls)

SpecFix == InitFix /\ [][NextPatch]_vars

\* The same client on files made of declaration blocks and line ends.
BlockFrags == { <<Decl>>, <<Close>>, <<NL>>, <<CR>>, <<"LIMIT $2">> }

InitFallback == InitOn(Concats(BlockFrags, MaxBlockFrags), {KnownError}, 0, MaxCalls)

SpecFallback == InitFallback /\ [][NextPatch]_vars

\* A client that scans the file, on files made of the text the three scan
\* patterns look for.
ScanFrags ==
  { <<Ind6, "WHERE", " ", "user_id = $1", " ">>, <<"'win'", " ", "UNION">>, <<"=">>,
    <<"Union">>, <<"LIMIT $2">>, <<NL>>, <<CR>>, <<BadByte>> }

NextScan == CallScan

InitScan == InitOn(Concats(ScanFrags, MaxScanFrags), {KnownError}, 0, MaxCalls)

SpecScan == InitScan /\ [][NextScan]_vars

\* A client that classifies error messages made of the parts of the known
\* one.
MessageFrags ==
  { <<"operator does not exist: ">>, <<"character varying = integer">>, <<"ERROR:  ">> }

NextClassify == CallAnalyze

InitClassify == InitOn({<<>>}, Concats(MessageFrags, MaxMsgLen), 0, MaxCalls)

SpecClassify == InitClassify /\ [][NextClassify]_vars

(***************************************************************************)
(* run_diagnosis                                                           *)
(***************************************************************************)
Attempts(name) == {i \in 1..Len(trace) : trace[i][1] = name}
Returned(name, flag) == \E i \in 1..Len(trace) : trace[i] = <<name, flag>>
RunDone == pc = "idle" /\ op = "run_diagnosis"

\* C1: in a run on an existing target, fix_sql_query is attempted only right
\* after a create_simple_fallback_query that returned False; a finished run
\* attempted the fallback exactly once, attempted the targeted fixes if and
\* only if the fallback returned False, and returned True if and only if the
\* fallback or, after it, the targeted fixes returned True.
C1_FallbackFirst ==
  /\ \A i \in Attempts("fix_sql_query") :
        i > 1 /\ trace[i - 1] = <<"create_simple_fallback_query", "False">>
  /\ (RunDone /\ before.exists) =>
        /\ Cardinality(Attempts("create_simple_fallback_query")) = 1
        /\ Cardinality(Attempts("fix_sql_query")) <= 1
        /\ (Attempts("fix_sql_query") # {}
              <=> Returned("create_simple_fallback_query", "False"))
        /\ (ok <=> (\/ Returned("create_simple_fallback_query", "True")
                    \/ Returned("fix_sql_query", "True")))

\* A run whose fallback failed and whose targeted fixes then succeeded.
C1_Witness ==
  /\ RunDone /\ before.exists
  /\ Returned("create_simple_fallback_query", "False")
  /\ Returned("fix_sql_query", "True")
  /\ ok

\* C2: a run that starts when the target path does not exist returns False
\* at once: it calls none of the other methods, and leaves the file system,
\* the analysis and the issues as they were.
C2_NotFound ==
  [][(pc = "idle" /\ ~file.exists /\ op' = "run_diagnosis" /\ budget' < budget) =>
        /\ pc' = "idle"
        /\ ok' = FALSE
        /\ trace' = <<>>
        /\ UNCHANGED <<file, faults, analysis, issues>>]_vars

\* A run on a missing target has returned.
C2_Witness ==
  RunDone /\ ~before.exists /\ ~file.exists /\ ~ok /\ trace = <<>>

(***************************************************************************)
(* fix_sql_query and failures                                              *)
(***************************************************************************)
\* The content after some, but not all, of the four substitutions.
Stages(text) == {Fix1(text), Fix2(Fix1(text)), Fix3(Fix2(Fix1(text)))}

PartlyFixed(bytes, text, sep) ==
  \E s \in Stages(text) :
     /\ bytes = Encode(s, sep)
     /\ s # text
     /\ s # Fix4(Fix3(Fix2(Fix1(text))))

\* C9 as stated: after a call of fix_sql_query, failed or not, the file never
\* holds content in which some but not all of the substitutions are applied.
C9_NeverPartial ==
  (op = "fix_sql_query" /\ Readable(before)) =>
     ~PartlyFixed(file.bytes, Decode(before.bytes), linesep)

\* C9, amended: after a call that returned True the file holds the fully
\* substituted content; after a call that returned False it is unchanged
\* (the read or the open for writing failed) or holds a prefix of the fully
\* substituted content (the write failed after the open truncated the file).
C9_WrittenOnceWhole ==
  op = "fix_sql_query" =>
     LET full == Encode(Fix4(Fix3(Fix2(Fix1(Decode(before.bytes))))), linesep)
     IN  IF ok THEN Readable(before) /\ file = FileOf(full)
         ELSE \/ file = before
              \/ Readable(before) /\ file.exists /\ file.bytes \in Prefixes(full)

\* A call that failed in the write and left a truncated file.
C9_Witness ==
  /\ op = "fix_sql_query" /\ ~ok /\ Readable(before)
  /\ file # before
  /\ Decode(before.bytes) # Fix1(Decode(before.bytes))
  /\ Fix3(Decode(before.bytes)) # Decode(before.bytes)

(***************************************************************************)
(* fix_sql_query on files that can be read and written                     *)
(***************************************************************************)
Fixed == op = "fix_sql_query" /\ ok
FixedTwice == Fixed /\ prev_op = "fix_sql_query" /\ prev_ok

\* WHERE.*result\s*=\s*'win' matches somewhere in the text.
WhereResultIn(text) ==
  \E i, j, a, b \in 1..Len(text) :
     /\ i < j /\ j < a /\ a < b
     /\ text[i] = "WHERE" /\ text[j] = "result" /\ text[a] = "=" /\ text[b] = "'win'"
     /\ \A k \in (i + 1)..(j - 1) : text[k] # NL
     /\ \A k \in ((j + 1)..(a - 1)) \cup ((a + 1)..(b - 1)) : text[k] \in WhiteSpace

ToStringIn(text) == "[userId.toString()]" \in Range(text)
LimitIn(text) == "LIMIT $2" \in Range(text)
WinningsIn(text) ==
  \E i \in 1..(Len(text) - 1) : text[i] = "winnings" /\ text[i + 1] = " > 0"

\* C3 as stated: after a successful fix_sql_query none of the four patterns
\* matches the content, and a second successful call leaves the file as it
\* is.
C3_Idempotent ==
  /\ Fixed =>
       LET text == Decode(file.bytes)
       IN  ~ToStringIn(text) /\ ~WhereResultIn(text) /\ ~LimitIn(text) /\ ~WinningsIn(text)
  /\ FixedTwice => file = before

\* C3, amended: after a successful fix_sql_query the targets of the first
\* and the fourth substitution are gone, while the replacements of the
\* second and the third still match their own patterns; a second successful
\* call leaves the file as it is if and only if neither of these two
\* patterns matches the content the first call wrote.
C3_IdempotentUnlessRematched ==
  /\ Fixed =>
       LET text == Decode(file.bytes)
       IN  ~ToStringIn(text) /\ ~WinningsIn(text)
  /\ FixedTwice =>
       LET text == Decode(before.bytes)
       IN  file = before <=> (~WhereResultIn(text) /\ ~LimitIn(text))

\* A second successful call on a file the first call changed.
C3_Witness ==
  /\ FixedTwice
  /\ file = before
  /\ "[userId]" \in Range(file.bytes)
  /\ "::NUMERIC" \in Range(file.bytes)

\* A second successful call that appends the annotations once more.
C3_WitnessRematched ==
  FixedTwice /\ file # before /\ LimitIn(Decode(before.bytes))

Annotation == {"::VARCHAR", "::INTEGER", "::NUMERIC"}
IsSolid(x) == x \notin Annotation \cup WhiteSpace

\* C8 as stated: the string-equality substitution only appends ::VARCHAR; up
\* to white space, everything else of the content is kept in order, so a
\* condition between WHERE and result is still there after the fix.
C8_OnlyAppends ==
  Fixed => SelectSeq(Decode(file.bytes), IsSolid)
             = SelectSeq(Fix1(Decode(before.bytes)), IsSolid)

(***************************************************************************)
(* create_simple_fallback_query on files that can be read and written      *)
(***************************************************************************)
FellBack == op = "create_simple_fallback_query" /\ ok
FellBackTwice == FellBack /\ prev_op = "create_simple_fallback_query" /\ prev_ok

\* const bettingQuery = `.*?`; matches somewhere in the text.
BlockIn(text) ==
  \E i, j \in 1..Len(text) : i < j /\ text[i] = Decl /\ text[j] = Close

\* C4 as stated: on a readable and writable file without a declaration
\* block the call returns True and the file holds the bytes it held.
C4_NoBlockUntouched ==
  (op = "create_simple_fallback_query" /\ Readable(before)
     /\ ~BlockIn(Decode(before.bytes)))
  => ok /\ file = before

\* The first declaration that a closing delimiter follows.
FirstDecl(text) ==
  Min({s \in 1..Len(text) : text[s] = Decl /\ \E c \in (s + 1)..Len(text) : text[c] = Close})
FirstClose(text, s) == Min({c \in (s + 1)..Len(text) : text[c] = Close})

\* C5 as stated: only the span from the first declaration to the first
\* closing delimiter after it is replaced; the text before and after it,
\* later blocks included, is kept.
C5_FirstBlockOnly ==
  FellBack =>
    LET text == Decode(before.bytes)
    IN  Decode(file.bytes) =
          IF ~BlockIn(text) THEN text
          ELSE SubSeq(text, 1, FirstDecl(text) - 1) \o fallback_query
               \o SubSeq(text, FirstClose(text, FirstDecl(text)) + 1, Len(text))

\* A declaration starts a replaced span when a closing delimiter follows it
\* and it lies in no span that started earlier.
StartsBlock(text, s) ==
  /\ text[s] = Decl
  /\ \E c \in (s + 1)..Len(text) : text[c] = Close
  /\ \A d \in 1..(s - 1) :
        text[d] = Decl => \E c \in (d + 1)..(s - 1) : text[c] = Close

InBlock(text, i) ==
  \E s \in 1..i :
     StartsBlock(text, s) /\ \A c \in (s + 1)..(i - 1) : text[c] # Close

\* C5, amended: every block, taken from left to right without overlap, from
\* a declaration to the first closing delimiter after it, line feeds
\* included, is replaced by the fallback block; the text outside the blocks
\* is kept in order, with its line ends as the text-mode read and write
\* convert them.
C5_EveryBlock ==
  FellBack =>
    LET text == Decode(before.bytes)
        want == Flatten([i \in 1..Len(text) |->
                           IF StartsBlock(text, i) THEN fallback_query
                           ELSE IF InBlock(text, i) THEN <<>>
                           ELSE <<text[i]>>])
    IN  Readable(before) /\ file = FileOf(Encode(want, linesep))

\* A successful call on a file with two blocks, the first with a line feed.
C5_Witness ==
  /\ FellBack
  /\ LET text == Decode(before.bytes)
     IN  /\ Cardinality({s \in 1..Len(text) : StartsBlock(text, s)}) = 2
         /\ \E i \in 1..Len(text) : text[i] = NL /\ InBlock(text, i)

\* C10: after a successful create_simple_fallback_query the content holds no
\* declaration block, and a second successful call leaves the file as it is.
C10_FallbackIdempotent ==
  /\ FellBack => ~BlockIn(Decode(file.bytes))
  /\ FellBackTwice => file = before

\* A second successful call on a file in which the first replaced a block.
C10_Witness ==
  /\ FellBackTwice
  /\ file = before
  /\ "const simpleQuery = <BQ>" \in Range(file.bytes)
  /\ Decl \in Range(file.bytes)

(***************************************************************************)
(* analyze_error                                                           *)
(***************************************************************************)
\* C6 as stated: the type_casting record for the known error string itself,
\* the unknown record for every other message, also for one that holds the
\* known string as a proper part.
C6_ExactMatch ==
  op = "analyze_error" =>
     analysis = IF error_message = KnownError THEN TypeCastingRecord ELSE UnknownRecord

\* C6, amended: the type_casting record for every message that holds the
\* known error string, at its start, inside or at its end, and the unknown
\* record for every other message; the call changes nothing else.
C6_SubstringMatch ==
  op = "analyze_error" =>
     /\ analysis =
          IF \E i \in 1..(Len(error_message) - 1) :
                /\ error_message[i] = "operator does not exist: "
                /\ error_message[i + 1] = "character varying = integer"
          THEN [issue_type |-> "type_casting",
                problem    |-> "VARCHAR column being compared to INTEGER",
                solution   |-> "Add explicit type casting or fix parameter types"]
          ELSE [issue_type |-> "unknown", problem |-> "Unknown error",
                solution   |-> "Investigate further"]
     /\ file = before

\* A message that holds the known string behind a prefix was classified.
C6_Witness ==
  /\ op = "analyze_error"
  /\ error_message = <<"ERROR:  ">> \o KnownError
  /\ analysis.issue_type = "type_casting"

(***************************************************************************)
(* find_sql_issues                                                         *)
(***************************************************************************)
LineCount(text) == Cardinality({q \in 1..Len(text) : text[q] = NL}) + 1

\* The i-th line: the lexemes with i - 1 line feeds before them.
LineAt(text, i) ==
  Flatten([q \in 1..Len(text) |->
             IF text[q] # NL /\ Cardinality({r \in 1..(q - 1) : text[r] = NL}) = i - 1
             THEN <<text[q]>>
             ELSE <<>>])

PatternIssue ==
  <<"String literal comparison - check if column is VARCHAR",
    "Parameter usage - verify type matches column type",
    "UNION query - ensure all SELECT statements have matching column types">>

PatternMatches(p, line) ==
  CASE p = 1 -> StringComparison(line)
    [] p = 2 -> ParameterUsage(line)
    [] p = 3 -> UnionQuery(line)

RecordsOf(i, p) ==
  {k \in 1..Len(issues) : issues[k].line = i /\ issues[k].issue = PatternIssue[p]}

\* C7: find_sql_issues returns, for each line and each of the three patterns
\* that matches the line, exactly one record with the 1-based number of the
\* line and a severity among low, medium and high, and no other record: at
\* most three records per line; it returns the empty list when the file
\* cannot be opened or decoded, and it does not change the file.
C7_OneRecordPerMatch ==
  op = "find_sql_issues" =>
     /\ file = before
     /\ IF ~Readable(before) THEN issues = <<>>
        ELSE LET text == Decode(before.bytes)
                 n    == LineCount(text)
             IN  /\ \A k \in 1..Len(issues) :
                       /\ issues[k].line \in 1..n
                       /\ issues[k].severity \in {"low", "medium", "high"}
                       /\ \E p \in 1..3 : issues[k].issue = PatternIssue[p]
                 /\ \A i \in 1..n : \A p \in 1..3 :
                       Cardinality(RecordsOf(i, p))
                         = IF PatternMatches(p, LineAt(text, i)) THEN 1 ELSE 0
                 /\ Len(issues) <= 3 * n

\* A scan found all three patterns on the second line of a file.
C7_Witness ==
  /\ op = "find_sql_issues"
  /\ Readable(before)
  /\ \A p \in 1..3 : Cardinality(RecordsOf(2, p)) = 1

\* A scan of a file that is not UTF-8 returned the empty list.
C7_WitnessUndecodable ==
  op = "find_sql_issues" /\ before.exists /\ ~Readable(before) /\ issues = <<>>

====
